---- MODULE Spec2Model ----
(***************************************************************************)
(* A model of the mini search engine of src/main.go: the inverted index    *)
(* built by BuildInvertedIndex, the TF-IDF and BM25 scorers, and Search    *)
(* (scoring, sort by descending score, truncation to ten results).         *)
(*                                                                         *)
(* Strings are sequences of one-character strings so that lowercasing,     *)
(* splitting on white space and substring counting are computed, not       *)
(* assumed.  Go slices are 0-based, TLA+ sequences 1-based: the Go         *)
(* expression documents[i] is documents[i + 1] here.                       *)
(*                                                                         *)
(* A TF-IDF score is a real number sum of tf * ln(N / df).  It is held in  *)
(* units of 10^-6, with ln(n) computed from the prime factorisation of n,  *)
(* so that ln(n/n) = 0 and ln(a) - ln(b) = ln(a/b) hold exactly and equal  *)
(* real scores are equal integers.  The rounding of float64 arithmetic is  *)
(* not modelled; the zero and the tied scores met below are exact in       *)
(* float64 as well (math.Log(1) = 0, and equal documents are scored by     *)
(* the same operations).                                                   *)
(***************************************************************************)
EXTENDS Integers, Sequences, FiniteSets, TLC

\* ---------------------------------------------------------------- bounds
\* A generated corpus has (number of documents + total number of
\* characters) <= MaxSize.
MaxSize == 4
\* A generated query has at most MaxQueryLen characters.
MaxQueryLen == 3
\* The large corpora have Limit + 2 .. Limit + 2 + MaxExtra documents.
MaxExtra == 1

\* ---------------------------------------------------- program constants
\* Search keeps at most this many results (results[:10]).
Limit == 10

\* ------------------------------------------------------------- strings
UpperCase == <<"A", "B", "C", "D", "E", "F", "G", "H", "I", "J", "K", "L", "M",
               "N", "O", "P", "Q", "R", "S", "T", "U", "V", "W", "X", "Y", "Z">>

LowerCase == <<"a", "b", "c", "d", "e", "f", "g", "h", "i", "j", "k", "l", "m",
               "n", "o", "p", "q", "r", "s", "t", "u", "v", "w", "x", "y", "z">>

\* unicode.ToLower on one character.
ToLowerChar(c) ==
    IF \E i \in 1..Len(UpperCase) : UpperCase[i] = c
    THEN LowerCase[CHOOSE i \in 1..Len(UpperCase) : UpperCase[i] = c]
    ELSE c

\* strings.ToLower
ToLower(s) == [i \in 1..Len(s) |-> ToLowerChar(s[i])]

\* unicode.IsSpace, on the ASCII white space
IsSpace(c) == c \in {" ", "\t", "\n", "\r"}

RECURSIVE FieldsFrom(_, _, _)
FieldsFrom(s, i, cur) ==
    IF i > Len(s)
    THEN IF cur = <<>> THEN <<>> ELSE <<cur>>
    ELSE IF IsSpace(s[i])
         THEN IF cur = <<>>
              THEN FieldsFrom(s, i + 1, <<>>)
              ELSE <<cur>> \o FieldsFrom(s, i + 1, <<>>)
         ELSE FieldsFrom(s, i + 1, Append(cur, s[i]))

\* strings.Fields: the maximal runs of non-space characters, in order.
Fields(s) == FieldsFrom(s, 1, <<>>)

RECURSIVE CountFrom(_, _, _)
CountFrom(s, substr, i) ==
    IF i + Len(substr) - 1 > Len(s)
    THEN 0
    ELSE IF SubSeq(s, i, i + Len(substr) - 1) = substr
         THEN 1 + CountFrom(s, substr, i + Len(substr))
         ELSE CountFrom(s, substr, i + 1)

\* strings.Count: the number of non-overlapping instances of substr in s.
Count(s, substr) == IF substr = <<>> THEN Len(s) + 1 ELSE CountFrom(s, substr, 1)

\* The tokens of a text, as Search and BuildInvertedIndex compute them.
Tokenize(text) == Fields(ToLower(text))

\* ----------------------------------------------------------- logarithm
LnPrime ==
    2 :> 693147 @@ 3 :> 1098612 @@ 5 :> 1609438 @@ 7 :> 1945910 @@
    11 :> 2397895 @@ 13 :> 2564949 @@ 17 :> 2833213 @@ 19 :> 2944439 @@
    23 :> 3135494 @@ 29 :> 3367296 @@ 31 :> 3433987 @@ 37 :> 3610918 @@
    41 :> 3713572 @@ 43 :> 3761200 @@ 47 :> 3850148 @@ 53 :> 3970292 @@
    59 :> 4077537 @@ 61 :> 4110874 @@ 67 :> 4204693 @@ 71 :> 4262680 @@
    73 :> 4290459 @@ 79 :> 4369448 @@ 83 :> 4418841 @@ 89 :> 4488636 @@
    97 :> 4574711

RECURSIVE Ln(_)
\* ln(n) in units of 10^-6, n >= 1, as the sum of the logarithms of n's
\* prime factors.
Ln(n) ==
    IF n = 1
    THEN 0
    ELSE LET p == CHOOSE q \in 2..n : n % q = 0 /\ \A r \in 2..(q - 1) : n % r # 0
         IN  LnPrime[p] + Ln(n \div p)

\* A variant of LogRatio: a smoothed idf, ln((n + 1) / d).
LogRatio_Smoothed(n, d) == Ln(n + 1) - Ln(d)

\* math.Log(float64(n) / float64(d)) for n, d >= 1
LogRatio(n, d) == Ln(n) - Ln(d)

\* ------------------------------------------------------------- corpora
Alphabet == {"a", "A", " "}

\* The strings over Alphabet of length exactly k.
StringsOfLen(k) == [1..k -> Alphabet]

StringsUpTo(k) == UNION {StringsOfLen(j) : j \in 0..k}

RECURSIVE ContentLists(_)
\* The lists of contents whose size (documents + characters) is <= budget.
ContentLists(budget) ==
    {<<>>} \cup
    (IF budget < 1
     THEN {}
     ELSE UNION {{<<c>> \o rest : rest \in ContentLists(budget - 1 - Len(c))} :
                 c \in StringsUpTo(budget - 1)})

\* How the ids of a corpus relate to the positions of its documents: "dense"
\* is id = position (the corpus of main), "reversed" the same ids in the
\* opposite order, "offset" the ids 1..N.
IdLayouts == {"dense", "reversed", "offset"}

IdOf(layout, i, n) ==
    CASE layout = "dense" -> i - 1
      [] layout = "reversed" -> n - i
      [] layout = "offset" -> i

\* A document as main writes it: {ID: .., Content: ..}, Score left zero.
MakeCorpus(contents, layout) ==
    [i \in 1..Len(contents) |->
        [ID |-> IdOf(layout, i, Len(contents)), Content |-> contents[i], Score |-> 0]]

SmallCorpora ==
    {MakeCorpus(cs, layout) : cs \in ContentLists(MaxSize), layout \in IdLayouts}

RECURSIVE Repeat(_, _)
\* k copies of the word w, separated by single spaces.
Repeat(w, k) == IF k <= 1 THEN w ELSE w \o <<" ">> \o Repeat(w, k - 1)

RECURSIVE Run(_, _)
\* The word made of k copies of the character c.
Run(c, k) == IF k = 0 THEN <<>> ELSE <<c>> \o Run(c, k - 1)

\* The large corpora: n documents, dense ids; every document but the last
\* holds the term "a", the last holds only the term "aa", so that more than
\* Limit documents match "a" and the scores differ.  In the "repeat" shape
\* the i-th document holds the token "a" (written "A" in every third)
\* 1 + (i-1)/2 times; in the "substr" shape it holds the token "a" once,
\* followed by a word of 2 + (i-1)/2 a's.
LargeContents(n, shape) ==
    [i \in 1..n |->
        IF i = n
        THEN <<"a", "a">>
        ELSE IF shape = "repeat"
             THEN Repeat(<<IF i % 3 = 0 THEN "A" ELSE "a">>, 1 + ((i - 1) \div 2))
             ELSE <<"a", " ">> \o Run("a", 2 + ((i - 1) \div 2))]

LargeCorpora ==
    {MakeCorpus(LargeContents(n, shape), "dense") :
        n \in (Limit + 2)..(Limit + 2 + MaxExtra), shape \in {"repeat", "substr"}}

\* The two-document corpus of the worked scenario.
ScenarioCorpus ==
    MakeCorpus(<< <<"t","h","e"," ","q","u","i","c","k"," ","b","r","o","w","n"," ","f","o","x">>,
                  <<"t","h","e"," ","l","a","z","y"," ","d","o","g">> >>, "dense")

Corpora == SmallCorpora \cup LargeCorpora \cup {ScenarioCorpus}

Queries ==
    StringsUpTo(MaxQueryLen) \cup {<<"t","h","e">>, <<"f","o","x">>, <<"c","a","t">>}

\* ------------------------------------------------------------- the index
\* make(map[..]..): the map with no keys
EmptyMap == [x \in {} |-> 0]

\* A variant of AddTokens: the id is stored only when the token's list is
\* created, so later documents holding the token are lost.
AddTokens_NewOnly(idx, tokens, id) ==
    [token \in DOMAIN idx \cup {tokens[j] : j \in 1..Len(tokens)} |->
        IF token \in DOMAIN idx THEN idx[token] ELSE <<id>>]

\* The loop over one document's tokens (lines 33-38): every occurrence
\* of a token appends the document's id to the token's list, a missing
\* list starting empty.
AddTokens(idx, tokens, id) ==
    [token \in DOMAIN idx \cup {tokens[j] : j \in 1..Len(tokens)} |->
        (IF token \in DOMAIN idx THEN idx[token] ELSE <<>>) \o
            [k \in 1..Cardinality({j \in 1..Len(tokens) : tokens[j] = token}) |-> id]]

RECURSIVE AddDocuments(_, _)
AddDocuments(idx, docs) ==
    IF docs = <<>>
    THEN idx
    ELSE AddDocuments(AddTokens(idx, Tokenize(Head(docs).Content), Head(docs).ID),
                      Tail(docs))

BuildInvertedIndex(docs) == AddDocuments(EmptyMap, docs)

RECURSIVE SumContentLen(_)
\* main's loop docLength += float64(len(doc.Content))
SumContentLen(docs) ==
    IF docs = <<>> THEN 0 ELSE Len(Head(docs).Content) + SumContentLen(Tail(docs))

\* docLength / float64(len(documents)), kept as the fraction it is
\* (0/0, NaN in Go, for the empty corpus).
AvgDocLength(docs) == [num |-> SumContentLen(docs), den |-> Len(docs)]

\* -------------------------------------------------------------- scoring
\* The engine value main constructs (k1 = 1.2 and k2 = 0.75 are fixed there
\* and enter only the BM25 arithmetic, which is kept symbolic below).
Engine(idx, docs, avg) == [index |-> idx, documents |-> docs, avgDocLength |-> avg]

\* se.documents[docID] panics unless 0 <= docID < len(se.documents).
InRange(se, docID) == docID >= 0 /\ docID < Len(se.documents)

\* The number of positions of the list xs that hold x.
Occurrences(xs, x) == Cardinality({j \in 1..Len(xs) : xs[j] = x})

\* The values a list holds.
Range(xs) == {xs[j] : j \in 1..Len(xs)}

\* A read of a Go map: a missing key reads as the zero value.
Lookup(m, key, zero) == IF key \in DOMAIN m THEN m[key] ELSE zero

\* The loop over docSet (lines 50-53) on acc = [panic, scores].  Each
\* position j of docSet executes scores[docSet[j]] += tf * idf, so a
\* document gains tf * idf once per position that holds its id; the loop
\* panics at the first id that is no index of se.documents.
TFIDFDocs(se, acc, docSet, token, idf) ==
    IF acc.panic \/ \E j \in 1..Len(docSet) : ~InRange(se, docSet[j])
    THEN [acc EXCEPT !.panic = TRUE]
    ELSE [acc EXCEPT !.scores =
            [docID \in DOMAIN acc.scores \cup Range(docSet) |->
                LET tf == Count(ToLower(se.documents[docID + 1].Content), token)
                IN  Lookup(acc.scores, docID, 0) + Occurrences(docSet, docID) * tf * idf]]

RECURSIVE TFIDFTokens(_, _, _)
\* The loop over the query tokens (lines 47-55).
TFIDFTokens(se, acc, tokens) ==
    IF tokens = <<>> \/ acc.panic
    THEN acc
    ELSE LET token == Head(tokens)
         IN  IF token \in DOMAIN se.index
             THEN LET docSet == se.index[token]
                      idf    == LogRatio(Len(se.documents), Len(docSet))
                  IN  TFIDFTokens(se, TFIDFDocs(se, acc, docSet, token, idf), Tail(tokens))
             ELSE TFIDFTokens(se, acc, Tail(tokens))

\* A variant of CalculateTFIDFScore: every document starts with score zero,
\* so documents matching no query token are returned too.
CalculateTFIDFScore_AllDocs(se, tokens) ==
    TFIDFTokens(se, [panic |-> FALSE,
                     scores |-> [docID \in 0..(Len(se.documents) - 1) |-> 0]], tokens)

\* [panic |-> whether an index expression went out of range,
\*  scores |-> the returned map docID -> score]
CalculateTFIDFScore(se, tokens) ==
    TFIDFTokens(se, [panic |-> FALSE, scores |-> EmptyMap], tokens)

\* The loop over docSet (lines 66-72); df is len(docSet) of line 65.  The
\* floating-point value idf * numerator / denominator is kept symbolic: a
\* BM25 score is the list, in the order added, of the integers each added
\* term is computed from, one term per position of docSet holding the id.
BM25Docs(se, acc, docSet, token, df) ==
    IF acc.panic \/ \E j \in 1..Len(docSet) : ~InRange(se, docSet[j])
    THEN [acc EXCEPT !.panic = TRUE]
    ELSE [acc EXCEPT !.scores =
            [docID \in DOMAIN acc.scores \cup Range(docSet) |->
                LET content == ToLower(se.documents[docID + 1].Content)
                    term == [n   |-> Len(se.documents),
                             df  |-> df,
                             tf  |-> Count(content, token),
                             dl  |-> Len(Fields(content)),
                             avg |-> se.avgDocLength]
                IN  Lookup(acc.scores, docID, <<>>) \o
                        [k \in 1..Occurrences(docSet, docID) |-> term]]]

RECURSIVE BM25Tokens(_, _, _)
\* The loop over the query tokens (lines 63-74).
BM25Tokens(se, acc, tokens) ==
    IF tokens = <<>> \/ acc.panic
    THEN acc
    ELSE LET token == Head(tokens)
         IN  IF token \in DOMAIN se.index
             THEN LET docSet == se.index[token]
                  IN  BM25Tokens(se, BM25Docs(se, acc, docSet, token, Len(docSet)),
                                 Tail(tokens))
             ELSE BM25Tokens(se, acc, Tail(tokens))

CalculateBM25Score(se, tokens) ==
    BM25Tokens(se, [panic |-> FALSE, scores |-> EmptyMap], tokens)

\* --------------------------------------------------------------- ranking
\* A variant of Less: ascending order.
Less_Ascending(a, b) == a.Score < b.Score

\* The comparator handed to sort.Slice: results[i].Score > results[j].Score.
Less(a, b) == a.Score > b.Score

RECURSIVE SortedOrders(_)
\* Every order sort.Slice can leave a set of results in.  The results are
\* appended in map iteration order, which Go leaves unspecified, and
\* sort.Slice is not stable: the outcome is any arrangement in which no
\* element is Less than one placed before it.
SortedOrders(rs) ==
    IF rs = {}
    THEN {<<>>}
    ELSE UNION {{<<r>> \o rest : rest \in SortedOrders(rs \ {r})} :
                r \in {x \in rs : \A y \in rs : ~Less(y, x)}}

\* A variant of Truncate: one result too many is kept (results[:11]).
Truncate_OneMore(rs) == IF Len(rs) > Limit THEN SubSeq(rs, 1, Limit + 1) ELSE rs

\* if len(results) > 10 { results = results[:10] }
Truncate(rs) == IF Len(rs) > Limit THEN SubSeq(rs, 1, Limit) ELSE rs

\* The results Search appends, one per entry of the score map (line 87).
ResultSet(se, scores) ==
    {[ID |-> docID, Content |-> se.documents[docID + 1].Content, Score |-> scores[docID]] :
        docID \in DOMAIN scores}

\* The sequences Search can return for a score map.
SearchOutcomes(se, scores) == {Truncate(o) : o \in SortedOrders(ResultSet(se, scores))}

\* ----------------------------------------------------------------- state
VARIABLES
    documents,      \* se.documents
    index,          \* se.index
    avgDocLength,   \* se.avgDocLength
    pc,             \* "start" before main built the engine, "ready", "panic"
    op,             \* "none" at the prompt, else the last call: "search", "bm25"
    query,          \* the argument of the last Search
    tokens,         \* Search's local tokens
    scores,         \* Search's local scores
    results,        \* what the last Search returned
    bm25            \* what CalculateBM25Score returned for tokens

vars == <<documents, index, avgDocLength, pc, op, query, tokens, scores, results, bm25>>

se == Engine(index, documents, avgDocLength)

Init ==
    /\ documents \in Corpora
    /\ index = EmptyMap
    /\ avgDocLength = [num |-> 0, den |-> 0]
    /\ pc = "start"
    /\ op = "none"
    /\ query = <<>>
    /\ tokens = <<>>
    /\ scores = EmptyMap
    /\ results = <<>>
    /\ bm25 = EmptyMap

\* main, lines 133-138: build the index and the engine.
Build ==
    /\ pc = "start"
    /\ index' = BuildInvertedIndex(documents)
    /\ avgDocLength' = AvgDocLength(documents)
    /\ pc' = "ready"
    /\ UNCHANGED <<documents, op, query, tokens, scores, results, bm25>>

\* main's loop reads a query and calls se.Search(q), lines 79-96.
Search(q) ==
    /\ pc = "ready"
    /\ op = "none"
    /\ LET toks == Tokenize(q)
           r    == CalculateTFIDFScore(se, toks)
       IN  /\ query' = q
           /\ tokens' = toks
           /\ op' = "search"
           /\ bm25' = EmptyMap
           /\ IF r.panic
              THEN /\ pc' = "panic"
                   /\ scores' = EmptyMap
                   /\ results' = <<>>
              ELSE /\ pc' = "ready"
                   /\ scores' = r.scores
                   /\ results' \in SearchOutcomes(se, r.scores)
    /\ UNCHANGED <<documents, index, avgDocLength>>

\* The alternative named in Search (line 83): score the same tokens with
\* se.CalculateBM25Score.
BM25 ==
    /\ pc = "ready"
    /\ op = "search"
    /\ LET r == CalculateBM25Score(se, tokens)
       IN  /\ pc' = IF r.panic THEN "panic" ELSE "ready"
           /\ bm25' = r.scores
    /\ op' = "bm25"
    /\ UNCHANGED <<documents, index, avgDocLength, query, tokens, scores, results>>

\* main, lines 148-151: the results are printed and the loop starts over;
\* query and results are locals of the loop body.
ShowResults ==
    /\ pc = "ready"
    /\ op # "none"
    /\ op' = "none"
    /\ query' = <<>>
    /\ tokens' = <<>>
    /\ scores' = EmptyMap
    /\ results' = <<>>
    /\ bm25' = EmptyMap
    /\ UNCHANGED <<documents, index, avgDocLength, pc>>

Next ==
    \/ Build
    \/ \E q \in Queries : Search(q)
    \/ BM25
    \/ ShowResults

Spec == Init /\ [][Next]_vars

\* ---------------------------------------------------------- the claims
\* The terms of a document: the tokens of its lowercased content.
TermsOf(doc) == Range(Tokenize(doc.Content))

\* The ids of the documents that hold at least one of the terms.
MatchingIds(terms) ==
    {documents[i].ID : i \in {j \in 1..Len(documents) : TermsOf(documents[j]) \cap terms # {}}}

\* The terms of all queries.
QueryTerms == UNION {Range(Tokenize(q)) : q \in Queries}

\* The terms the claims range over: those of the corpus, of the index and
\* of every query.
AllTerms ==
    UNION {TermsOf(documents[i]) : i \in 1..Len(documents)}
        \cup DOMAIN index
        \cup QueryTerms

\* The ids the index lists for a term (none for a term it does not hold).
Postings(term) == IF term \in DOMAIN index THEN Range(index[term]) ELSE {}

\* Ids equal positions, as in the corpus of main.
DenseIds == \A i \in 1..Len(documents) : documents[i].ID = i - 1

\* A Search has returned (it did not panic) and its locals are in scope.
Searched == pc = "ready" /\ op \in {"search", "bm25"}

ResultIds == {results[k].ID : k \in 1..Len(results)}

\* The engine is built and main is at its prompt.  (No later step assigns
\* index, documents or avgDocLength.)
Built == pc = "ready" /\ op = "none"

\* C1: once the index is built, a document's id is listed under a term
\* exactly when the term is one of the document's tokens, and a term that
\* occurs in no document is no key of the index.
C1_IndexMatchesTokens ==
    Built =>
        \A term \in AllTerms :
            /\ \A i \in 1..Len(documents) :
                   documents[i].ID \in Postings(term) <=> term \in TermsOf(documents[i])
            /\ (\A i \in 1..Len(documents) : term \notin TermsOf(documents[i]))
                   => term \notin DOMAIN index

\* C1 witness: an index built over a corpus in which some term is in one
\* document and not in another.
C1_Witness ==
    /\ Built
    /\ \E term \in DOMAIN index : \E i, j \in 1..Len(documents) :
           /\ term \in TermsOf(documents[i])
           /\ term \notin TermsOf(documents[j])
           /\ documents[i].ID \in Postings(term)

\* C2 (as claimed): every posting list names each document id at most once.
C2_NoDuplicatePostings ==
    Built =>
        \A term \in DOMAIN index : \A j, k \in 1..Len(index[term]) :
            j # k => index[term][j] # index[term][k]

\* C3 (as claimed): Search is deterministic: whatever a call returned,
\* every call with the same query on the same engine returns that same
\* sequence.
C3_SearchDeterministic ==
    (pc = "ready" /\ op = "search") =>
        \A other \in SearchOutcomes(se, scores) : other = results

\* C4 (as claimed): with unique ids, whatever their values, Search does not
\* fail and every result carries the content of the document with its id.
C4_UniqueIdsSuffice ==
    /\ pc # "panic"
    /\ Searched =>
           \A k \in 1..Len(results) : \E i \in 1..Len(documents) :
               documents[i].ID = results[k].ID /\ documents[i].Content = results[k].Content

TheQuery == <<"t", "h", "e">>

\* C5 (as claimed): on the scenario corpus Search("the") returns the two
\* documents, each with a nonzero score.
C5_TheScoresNonzero ==
    (documents = ScenarioCorpus /\ Searched /\ query = TheQuery) =>
        /\ Len(results) = 2
        /\ ResultIds = {0, 1}
        /\ \A k \in 1..Len(results) : results[k].Score # 0

\* C5 (amended): on the scenario corpus Search("the") returns the two
\* documents, each with score zero: the term is in both documents, so its
\* idf is ln(2/2) = 0.
C5_TheScoresZero ==
    (documents = ScenarioCorpus /\ Searched /\ query = TheQuery) =>
        /\ Len(results) = 2
        /\ ResultIds = {0, 1}
        /\ \A k \in 1..Len(results) : results[k].Score = 0

\* C5 witness: Search("the") has returned on the scenario corpus.
C5_Witness ==
    documents = ScenarioCorpus /\ Searched /\ query = TheQuery /\ Len(results) = 2

\* The content of the document with the given id.
ContentOf(id) == documents[CHOOSE i \in 1..Len(documents) : documents[i].ID = id].Content

RECURSIVE ClaimedScore(_, _)
\* The score C6 states: one tf * ln(N / df) per query token occurrence
\* whose term the document holds, df the number of distinct documents
\* holding the term.
ClaimedScore(id, toks) ==
    IF toks = <<>>
    THEN 0
    ELSE (IF id \in MatchingIds({Head(toks)})
          THEN Count(ToLower(ContentOf(id)), Head(toks))
                   * LogRatio(Len(documents), Cardinality(MatchingIds({Head(toks)})))
          ELSE 0)
         + ClaimedScore(id, Tail(toks))

\* C6 (as claimed): the TF-IDF score of every scored document is the sum
\* over the query token occurrences of tf * ln(N / number of distinct
\* documents holding the term).  Stated on corpora whose ids are positions.
C6_ScoreIsClaimedSum ==
    (Searched /\ DenseIds) =>
        \A id \in DOMAIN scores : scores[id] = ClaimedScore(id, tokens)

RECURSIVE TotalTokens(_)
TotalTokens(docs) ==
    IF docs = <<>> THEN 0 ELSE Len(Tokenize(Head(docs).Content)) + TotalTokens(Tail(docs))

\* C7 (as claimed): avgDocLength times the number of documents is the
\* total number of tokens of the corpus.
C7_AvgIsMeanTokenCount ==
    (Built /\ Len(documents) > 0) =>
        avgDocLength.num * Len(documents) = TotalTokens(documents) * avgDocLength.den

\* C8: the ids in the map CalculateTFIDFScore returns, and in the map
\* CalculateBM25Score returns for the same tokens, are exactly the ids of
\* the documents holding at least one query token; none for a query
\* without tokens or with unknown tokens only.
C8_SameCandidateSet ==
    /\ Searched => DOMAIN scores = MatchingIds(Range(tokens))
    /\ (pc = "ready" /\ op = "bm25") =>
           /\ DOMAIN bm25 = MatchingIds(Range(tokens))
           /\ DOMAIN bm25 = DOMAIN scores
    /\ (Searched /\ Range(tokens) \cap DOMAIN index = {}) => scores = EmptyMap

\* C8 witness: both scorers have returned for a query that some documents
\* match and some do not.
C8_Witness ==
    /\ pc = "ready"
    /\ op = "bm25"
    /\ DOMAIN bm25 # {}
    /\ \E i \in 1..Len(documents) : documents[i].ID \notin DOMAIN bm25

\* C9: the returned sequence is in descending score order, and when more
\* than Limit documents matched no document left out has a score strictly
\* greater than a returned one.
C9_SortedDescending ==
    Searched =>
        /\ \A k \in 1..(Len(results) - 1) : results[k].Score >= results[k + 1].Score
        /\ Cardinality(DOMAIN scores) > Limit =>
               \A id \in DOMAIN scores \ ResultIds : \A k \in 1..Len(results) :
                   scores[id] <= results[k].Score

\* C9 witness: more than Limit documents matched, with different scores,
\* and one was left out.
C9_Witness ==
    /\ Searched
    /\ Cardinality(DOMAIN scores) > Limit
    /\ DOMAIN scores \ ResultIds # {}
    /\ results[1].Score > results[Len(results)].Score

Min(a, b) == IF a < b THEN a ELSE b

\* C10: Search returns min(Limit, number of scored documents) results, no
\* document twice, and the empty sequence when nothing was scored.
C10_ResultCount ==
    Searched =>
        /\ Len(results) = Min(Limit, Cardinality(DOMAIN scores))
        /\ Len(results) <= Limit
        /\ Len(results) < Limit <=> Cardinality(DOMAIN scores) < Limit
        /\ \A j, k \in 1..Len(results) : j # k => results[j].ID # results[k].ID
        /\ ResultIds \subseteq DOMAIN scores
        /\ (tokens = <<>> \/ Range(tokens) \cap DOMAIN index = {}) => results = <<>>

\* C10 witness: more documents were scored than Search returns.
C10_Witness ==
    /\ Searched
    /\ Cardinality(DOMAIN scores) = Limit + 1
    /\ Len(results) = Limit

====
